---- MODULE Spec2Model ----
(***************************************************************************)
(* The retrieval/generation orchestrator of the chatbot backend:           *)
(* backend/app.py (initialize_system and the three request handlers),      *)
(* backend/services/rag_service.py (RAGService),                           *)
(* backend/services/document_service.py (DocumentService),                 *)
(* backend/utils/text_processing.py (validate_input) and                   *)
(* backend/models/chat_models.py (ChatRequest.from_dict).                  *)
(*                                                                         *)
(* Under Spec handlers are atomic actions; under WorkersSpec one chat and   *)
(* two reinitialize handlers run as workers whose steps interleave; under  *)
(* ServiceSpec the methods of one RAGService are called in any order; and  *)
(* ChunkSpec runs utils/text_processing.py chunk_text step by step.        *)
(* Each Python function is an operator from                                *)
(* the objects it reads (and the outcome of the external calls it makes)   *)
(* to the objects it leaves behind and its return value.  The external     *)
(* collaborators (Groq, HuggingFace, Chroma, the file system) are the      *)
(* inputs: an environment record for an initialization, a request and the  *)
(* outcomes of the search and of the generator call for a chat.            *)
(***************************************************************************)
EXTENDS Integers, Sequences, FiniteSets, TLC

\* ------------------------------------------------------------------ bounds
\* Largest number of chunks the corpus yields.
MaxChunks == 2
\* Cap on the entries a persisted collection may accumulate.
MaxIndex == 2
\* Largest k_context a request supplies.
MaxK == 2
\* Raw similarity distances are 0..MaxDist, in units of 0.00005.
MaxDist == 1
\* Longest text handed to chunk_text.
MaxText == 3
\* Largest chunk_size handed to chunk_text.
MaxSize == 2
\* Largest overlap handed to chunk_text.
MaxOverlap == 2
\* Cap on the chunks recorded of one chunk_text call: a list that has MaxOut
\* entries keeps them and takes no more.
MaxOut == 3
\* Longest ranking a search outcome lists.
MaxHits == 2

\* --------------------------------------------------------- program constants
MAX_REBUILD_ATTEMPTS == 3
DEFAULT_K_RETRIEVAL == 5
max_length == 5000
\* The embedder this process is configured with (Config.HF_EMBEDDING_MODEL_NAME);
\* a persisted index left by an earlier process may come from another one.
HF_EMBEDDING_MODEL_NAME == 2
EmbIds == 1..HF_EMBEDDING_MODEL_NAME
\* The corpus contents told apart ("none": no chunks).
Versions == {"v1", "v2"}

\* ------------------------------------------------------------------- state
VARIABLES
    phase,                \* "boot" | "serving" | "exited" (app.py __main__)
    document_service,     \* app.py global: DocumentService or None
    rag_service,          \* app.py global: RAGService or None
    system_ready,         \* app.py global
    initialization_error, \* app.py global: "None" or the diagnostic's kind
    disk,                 \* Config.CHROMA_PERSIST_DIR on the file system
    init_log,             \* what the last initialize_system did
    resp,                 \* the last response sent by a handler
    heap,                 \* the RAGService objects made so far, by identity
    ref,                  \* the identity of the object the global rag_service names
    pc,                   \* where each request worker stands in its handler
    frame                 \* each worker's locals

vars == <<phase, document_service, rag_service, system_ready,
          initialization_error, disk, init_log, resp, heap, ref, pc, frame>>

\* The workers' state; a handler that runs as one step never shows it.
workers == <<heap, ref, pc, frame>>

\* The shared state a request handler could touch.
shared == <<document_service, rag_service, system_ready, initialization_error, disk>>

\* ----------------------------------------------------------------- objects
\* DocumentService: counts of loaded pages, files and chunks; ver names the
\* content the chunks were cut from.  exists = FALSE is the global None.
NoDocumentService ==
    [exists |-> FALSE, loaded_documents |-> 0, loaded_filenames |-> 0,
     chunks |-> 0, ver |-> "none"]

DocumentService ==
    [exists |-> TRUE, loaded_documents |-> 0, loaded_filenames |-> 0,
     chunks |-> 0, ver |-> "none"]

\* RAGService: llm and vector_db are handles (TRUE = set), embedding_model is
\* the embedder's identity (0 = None).
NoRAGService ==
    [exists |-> FALSE, llm |-> FALSE, embedding_model |-> 0, vector_db |-> FALSE]

RAGService ==
    [exists |-> TRUE, llm |-> FALSE, embedding_model |-> 0, vector_db |-> FALSE]

\* The persisted directory: whether it exists, and the entries of the Chroma
\* collection in it as a sequence of batches, one per build that added to it:
\* [n |-> entries, ver |-> corpus content, emb |-> embedder that made the vectors].
\* An empty sequence is an empty directory.
RECURSIVE SumN(_)
SumN(bs) == IF bs = <<>> THEN 0 ELSE Head(bs).n + SumN(Tail(bs))

count(d) == SumN(d.index)

Batches ==
    [n : 1..MaxChunks, ver : Versions, emb : EmbIds]

\* What an earlier run of the program can have left behind.
DiskInit ==
    {[exists |-> FALSE, index |-> <<>>], [exists |-> TRUE, index |-> <<>>]}
    \cup {[exists |-> TRUE, index |-> <<b>>] : b \in Batches}

\* ------------------------------------------------------------- environment
\* What the outside world does during one initialize_system:
\*   cfg      "ok" | "nokey" (GROQ_API_KEY unset) | "nofolder" (PDF folder cannot be made)
\*   llmUp    ChatGroq(...).invoke("Hello") succeeds
\*   files    files of the content folder that load with content
\*   chunks   chunks the splitter cuts from them;  ver: their content
\*   embUp    HuggingFaceEmbeddings(...) and its test embedding succeed
\*   loadOk   Chroma(persist_directory=...) opens the persisted collection
\*   locked   erasure attempts that raise PermissionError before one succeeds
\*   eraseErr the first attempt raises another exception
\*   buildOk  Chroma.from_documents succeeds
EnvDefault ==
    [cfg |-> "ok", llmUp |-> TRUE, files |-> 1, chunks |-> 1, ver |-> "v1",
     embUp |-> TRUE, loadOk |-> TRUE, locked |-> 0, eraseErr |-> FALSE,
     buildOk |-> TRUE]

\* Environments, one per distinguishable course of an initialization: a field
\* that is never read on a course keeps its default.
EnvSet ==
    {[EnvDefault EXCEPT !.cfg = c] : c \in {"nokey", "nofolder"}}
    \cup {[EnvDefault EXCEPT !.llmUp = FALSE]}
    \cup {[EnvDefault EXCEPT !.files = 0, !.chunks = 0]}
    \cup {[EnvDefault EXCEPT !.chunks = 0]}
    \cup {[EnvDefault EXCEPT !.chunks = n, !.ver = v, !.embUp = FALSE] :
            n \in 1..MaxChunks, v \in Versions}
    \cup {[EnvDefault EXCEPT !.chunks = n, !.ver = v, !.loadOk = l,
                             !.locked = k, !.buildOk = b] :
            n \in 1..MaxChunks, v \in Versions, l \in BOOLEAN,
            k \in 0..MAX_REBUILD_ATTEMPTS, b \in BOOLEAN}
    \cup {[EnvDefault EXCEPT !.chunks = n, !.ver = v, !.loadOk = l,
                             !.eraseErr = TRUE, !.buildOk = b] :
            n \in 1..MaxChunks, v \in Versions, l \in BOOLEAN, b \in BOOLEAN}

\* ------------------------------------------------- RAGService: initialization
\* initialize_llm: (service, ok, diagnostic).
initialize_llm(svc, e) ==
    IF e.cfg = "nokey"
    THEN [svc |-> svc, ok |-> FALSE, err |-> "llm"]
    ELSE IF e.llmUp
         THEN [svc |-> [svc EXCEPT !.llm = TRUE], ok |-> TRUE, err |-> "None"]
         ELSE [svc |-> [svc EXCEPT !.llm = FALSE], ok |-> FALSE, err |-> "llm"]

initialize_embedding_model(svc, e) ==
    IF e.embUp
    THEN [svc |-> [svc EXCEPT !.embedding_model = HF_EMBEDDING_MODEL_NAME],
          ok |-> TRUE, err |-> "None"]
    ELSE [svc |-> [svc EXCEPT !.embedding_model = 0], ok |-> FALSE, err |-> "embed"]

\* _check_vector_store_rebuild that does not compare the counts.
_check_vector_store_rebuild_no_count(svc, d, chunks, e) ==
    IF ~d.exists THEN [needs |-> TRUE, svc |-> svc]
    ELSE IF d.index = <<>> THEN [needs |-> TRUE, svc |-> svc]
    ELSE IF ~e.loadOk THEN [needs |-> TRUE, svc |-> svc]
    ELSE [needs |-> FALSE, svc |-> [svc EXCEPT !.vector_db = TRUE]]

\* _check_vector_store_rebuild that keeps the collection it opened when the
\* counts differ.
_check_vector_store_rebuild_keeps_loaded(svc, d, chunks, e) ==
    IF ~d.exists THEN [needs |-> TRUE, svc |-> svc]
    ELSE IF d.index = <<>> THEN [needs |-> TRUE, svc |-> svc]
    ELSE IF ~e.loadOk THEN [needs |-> TRUE, svc |-> svc]
    ELSE IF count(d) # chunks.n
    THEN [needs |-> TRUE, svc |-> [svc EXCEPT !.vector_db = TRUE]]
    ELSE [needs |-> FALSE, svc |-> [svc EXCEPT !.vector_db = TRUE]]

\* _check_vector_store_rebuild: whether a rebuild is needed, and the service
\* (vector_db becomes the loaded collection when none is needed).
_check_vector_store_rebuild(svc, d, chunks, e) ==
    IF ~d.exists THEN [needs |-> TRUE, svc |-> svc]
    ELSE IF d.index = <<>> THEN [needs |-> TRUE, svc |-> svc]
    ELSE IF ~e.loadOk THEN [needs |-> TRUE, svc |-> svc]
    ELSE IF count(d) # chunks.n THEN [needs |-> TRUE, svc |-> svc]
    ELSE [needs |-> FALSE, svc |-> [svc EXCEPT !.vector_db = TRUE]]

\* One pass of the erasure loop, from attempt number `attempt` on.  An attempt
\* either removes every item, or raises before the collection's files are gone
\* (a partial removal that took the collection's files with it leaves the
\* directory as good as empty, and one that damaged them shows as loadOk = FALSE).
\* retry_delay that also waits after the last attempt.
retry_delay_always(attempt) == 1

\* The waits (of RETRY_DELAY each) that follow a PermissionError on attempt
\* number `attempt`: one, except after the last attempt.
retry_delay(attempt) == IF attempt < MAX_REBUILD_ATTEMPTS - 1 THEN 1 ELSE 0

RECURSIVE CleanLoop(_, _, _)
CleanLoop(d, e, attempt) ==
    IF attempt >= MAX_REBUILD_ATTEMPTS
    THEN [disk |-> d, attempts |-> 0, sleeps |-> 0, cleaned |-> FALSE]
    ELSE IF e.eraseErr
    THEN [disk |-> d, attempts |-> 1, sleeps |-> 0, cleaned |-> FALSE]
    ELSE IF attempt < e.locked
    THEN LET r == CleanLoop(d, e, attempt + 1)
         IN  [r EXCEPT !.attempts = @ + 1,
                       !.sleeps = @ + retry_delay(attempt)]
    ELSE [disk |-> [d EXCEPT !.index = <<>>], attempts |-> 1, sleeps |-> 0,
          cleaned |-> TRUE]

_clean_vector_store_directory(d, e) ==
    IF ~d.exists
    THEN [disk |-> d, attempts |-> 0, sleeps |-> 0, cleaned |-> TRUE]
    ELSE CleanLoop(d, e, 0)

\* Chroma.from_documents on the directory as the erasure left it: the chunks are
\* added to the collection found there.
from_documents(d, chunks, emb) ==
    [d EXCEPT !.exists = TRUE,
              !.index = Append(@, [n |-> chunks.n, ver |-> chunks.ver, emb |-> emb])]

\* _rebuild_vector_store that keeps the old handle when the build fails.
_rebuild_vector_store_keeps_handle(svc, d, chunks, e) ==
    LET c == _clean_vector_store_directory(d, e)
    IN  IF e.buildOk
        THEN [svc |-> [svc EXCEPT !.vector_db = TRUE],
              disk |-> from_documents(c.disk, chunks, svc.embedding_model),
              ok |-> TRUE, clean |-> c]
        ELSE [svc |-> svc, disk |-> c.disk, ok |-> FALSE, clean |-> c]

_rebuild_vector_store(svc, d, chunks, e) ==
    LET svc1 == [svc EXCEPT !.vector_db = FALSE]
        c    == _clean_vector_store_directory(d, e)
    IN  IF e.buildOk
        THEN [svc |-> [svc1 EXCEPT !.vector_db = TRUE],
              disk |-> from_documents(c.disk, chunks, svc.embedding_model),
              ok |-> TRUE, clean |-> c]
        ELSE [svc |-> svc1, disk |-> c.disk, ok |-> FALSE, clean |-> c]

NoClean == [disk |-> [exists |-> FALSE, index |-> <<>>], attempts |-> 0,
            sleeps |-> 0, cleaned |-> FALSE]

\* How an erasure ended: "cleaned", "locked" (PermissionError on every attempt,
\* "Failed to clean vector store directory") or "error" (another exception);
\* "None" when no erasure was run.
clean_outcome(c) ==
    IF c = NoClean THEN "None"
    ELSE IF c.cleaned THEN "cleaned"
    ELSE IF c.attempts >= MAX_REBUILD_ATTEMPTS THEN "locked"
    ELSE "error"

initialize_vector_store(svc, d, chunks, e) ==
    IF svc.embedding_model = 0
    THEN [svc |-> svc, disk |-> d, ok |-> FALSE, err |-> "no_embedder",
          rebuilt |-> FALSE, clean |-> NoClean]
    ELSE IF chunks.n = 0
    THEN [svc |-> svc, disk |-> d, ok |-> FALSE, err |-> "no_chunks",
          rebuilt |-> FALSE, clean |-> NoClean]
    ELSE LET d1  == [d EXCEPT !.exists = TRUE]
             chk == _check_vector_store_rebuild(svc, d1, chunks, e)
         IN  IF chk.needs
             THEN LET rb == _rebuild_vector_store(chk.svc, d1, chunks, e)
                  IN  [svc |-> rb.svc, disk |-> rb.disk, ok |-> rb.ok,
                       err |-> IF rb.ok THEN "None" ELSE "rebuild",
                       rebuilt |-> TRUE, clean |-> rb.clean]
             ELSE [svc |-> chk.svc, disk |-> d1, ok |-> TRUE, err |-> "None",
                   rebuilt |-> FALSE, clean |-> NoClean]

is_available(svc) == svc.llm

is_rag_ready(svc) == svc.llm /\ svc.vector_db /\ svc.embedding_model # 0

\* clear that keeps the index handle.
clear_keeps_index(svc) == [svc EXCEPT !.embedding_model = 0, !.llm = FALSE]

\* clear that keeps the generator handle.
clear_keeps_llm(svc) == [svc EXCEPT !.vector_db = FALSE, !.embedding_model = 0]

\* RAGService.clear
clear(svc) == [svc EXCEPT !.vector_db = FALSE, !.embedding_model = 0, !.llm = FALSE]

\* ------------------------------------------------------------ DocumentService
\* load_documents that reports success whatever it loaded.
load_documents_always_ok(ds, e) ==
    LET ds1 == [ds EXCEPT !.loaded_documents = e.files, !.loaded_filenames = e.files]
    IN  [ds |-> ds1, ok |-> TRUE]

load_documents(ds, e) ==
    LET ds1 == [ds EXCEPT !.loaded_documents = e.files, !.loaded_filenames = e.files]
    IN  [ds |-> ds1, ok |-> e.files > 0]

\* create_chunks that reports success whatever the splitter yields.
create_chunks_always_ok(ds, e) ==
    IF ds.loaded_documents = 0
    THEN [ds |-> ds, ok |-> FALSE]
    ELSE [ds |-> [ds EXCEPT !.chunks = e.chunks,
                            !.ver = IF e.chunks = 0 THEN "none" ELSE e.ver],
          ok |-> TRUE]

create_chunks(ds, e) ==
    IF ds.loaded_documents = 0
    THEN [ds |-> ds, ok |-> FALSE]
    ELSE [ds |-> [ds EXCEPT !.chunks = e.chunks,
                            !.ver = IF e.chunks = 0 THEN "none" ELSE e.ver],
          ok |-> e.chunks > 0]

get_chunks(ds) == [n |-> ds.chunks, ver |-> ds.ver]

document_service_clear(ds) ==
    [ds EXCEPT !.loaded_documents = 0, !.loaded_filenames = 0, !.chunks = 0,
               !.ver = "none"]

\* ------------------------------------------------------------ Config.validate
Config_validate(e) == IF e.cfg = "ok" THEN "None" ELSE "config"

\* ------------------------------------------------------- initialize_system
\* The globals as one record, so that a handler is a function of them.
Globals ==
    [document_service |-> document_service, rag_service |-> rag_service,
     system_ready |-> system_ready, initialization_error |-> initialization_error,
     disk |-> disk]

NoInit ==
    [ret |-> FALSE, steps |-> <<>>, llm_ok |-> FALSE, soft |-> "None",
     vs_ok |-> FALSE, rebuilt |-> FALSE, clean |-> "None"]

\* The fatal exit: the diagnostic is recorded and False returned.
fatal_failure(g, steps, err) ==
    [g |-> [g EXCEPT !.initialization_error = err],
     log |-> [NoInit EXCEPT !.steps = steps]]

\* soft_failure with the flag left as it was.
soft_failure_flag_unset(g, steps, kind) ==
    [g |-> g,
     log |-> [NoInit EXCEPT !.ret = TRUE, !.llm_ok = TRUE, !.soft = kind,
                            !.steps = steps]]

\* A soft failure: a warning is logged, system_ready set and True returned.
soft_failure(g, steps, kind) ==
    [g |-> [g EXCEPT !.system_ready = TRUE],
     log |-> [NoInit EXCEPT !.ret = TRUE, !.llm_ok = TRUE, !.soft = kind,
                            !.steps = steps]]

\* initialize_system: the globals it leaves and, under log, its return value,
\* the steps it attempted in order and the soft failure it logged.
initialize_system(g, e) ==
    IF Config_validate(e) # "None"
    THEN fatal_failure(g, <<"config">>, Config_validate(e))
    ELSE
    LET llm == initialize_llm(RAGService, e)
        g1  == [g EXCEPT !.document_service = DocumentService, !.rag_service = llm.svc]
    IN
    IF ~llm.ok
    THEN fatal_failure(g1, <<"config", "llm">>, llm.err)
    ELSE
    LET doc == load_documents(g1.document_service, e)
        g2  == [g1 EXCEPT !.document_service = doc.ds]
    IN
    IF ~doc.ok
    THEN soft_failure(g2, <<"config", "llm", "docs">>, "docs")
    ELSE
    LET chk == create_chunks(g2.document_service, e)
        g3  == [g2 EXCEPT !.document_service = chk.ds]
    IN
    IF ~chk.ok
    THEN soft_failure(g3, <<"config", "llm", "docs", "chunks">>, "chunks")
    ELSE
    LET emb == initialize_embedding_model(g3.rag_service, e)
        g4  == [g3 EXCEPT !.rag_service = emb.svc]
    IN
    IF ~emb.ok
    THEN soft_failure(g4, <<"config", "llm", "docs", "chunks", "embed">>, "embed")
    ELSE
    LET vs  == initialize_vector_store(g4.rag_service, g4.disk,
                                       get_chunks(g4.document_service), e)
        g5  == [g4 EXCEPT !.rag_service = vs.svc, !.disk = vs.disk]
        all == <<"config", "llm", "docs", "chunks", "embed", "vector">>
    IN
    IF ~vs.ok
    THEN LET r == soft_failure(g5, all, "vector")
         IN  [r EXCEPT !.log.rebuilt = vs.rebuilt,
                       !.log.clean = clean_outcome(vs.clean)]
    ELSE [g |-> [g5 EXCEPT !.system_ready = TRUE],
          log |-> [ret |-> TRUE, steps |-> all, llm_ok |-> TRUE, soft |-> "None",
                   vs_ok |-> TRUE, rebuilt |-> vs.rebuilt,
                   clean |-> clean_outcome(vs.clean)]]

\* ------------------------------------------------------------- responses
NoResp ==
    [op |-> "none", http |-> 0, error |-> "None", mode |-> "None", text |-> "None",
     sources |-> <<>>, context_info |-> "None", prompt |-> "None",
     valid |-> "None", search_call |-> "None", llm_call |-> "None",
     rag_pipeline_ready |-> FALSE, llm_ready |-> FALSE, db_ready |-> FALSE,
     loaded_documents |-> 0, initialization_error |-> "None", message |-> "None"]

\* ---------------------------------------------------------------- api_status
api_status(g) ==
    IF ~g.system_ready \/ ~g.rag_service.exists
    THEN [NoResp EXCEPT !.op = "status", !.http = 200,
            !.initialization_error =
                IF g.initialization_error # "None" THEN g.initialization_error
                ELSE "System not initialized",
            !.message = "System not ready"]
    ELSE [NoResp EXCEPT !.op = "status", !.http = 200,
            !.rag_pipeline_ready = is_rag_ready(g.rag_service),
            !.llm_ready = is_available(g.rag_service),
            !.db_ready = is_rag_ready(g.rag_service),
            !.loaded_documents =
                IF g.document_service.exists
                THEN g.document_service.loaded_filenames ELSE 0,
            !.initialization_error = g.initialization_error,
            !.message =
                IF is_rag_ready(g.rag_service) THEN "System ready (RAG mode with documents)"
                ELSE IF is_available(g.rag_service) THEN "System ready (LLM-only mode)"
                ELSE "System has issues"]

\* ------------------------------------------------------------ validate_input
\* A message is ws surrounding whitespace characters around len characters that
\* start and end with a non-blank one (len = 0: nothing but whitespace); pat is
\* the denylisted pattern it contains.
strip(m) == [m EXCEPT !.ws = 0]

length(m) == m.ws + m.len

Patterns == {"script", "javascript:", "on_attr=", "data:text/html"}

validate_input(m) ==
    LET text == strip(m)
    IN  IF length(text) = 0 THEN [ok |-> FALSE, err |-> "Input cannot be empty"]
        ELSE IF length(text) > max_length THEN [ok |-> FALSE, err |-> "Input too long"]
        ELSE IF text.pat \in Patterns
             THEN [ok |-> FALSE, err |-> "Input contains suspicious content"]
        ELSE [ok |-> TRUE, err |-> ""]

\* ---------------------------------------------------- ChatRequest.from_dict
\* k_context as sent: absent, not a number, or an integer.
from_dict(req) ==
    IF req.body # "ok" THEN [ok |-> FALSE, raised |-> "AttributeError", k |-> 0]
    ELSE IF length(strip(req.message)) = 0
    THEN [ok |-> FALSE, raised |-> "Message cannot be empty", k |-> 0]
    ELSE IF req.k.kind = "none" THEN [ok |-> TRUE, raised |-> "None", k |-> 0]
    ELSE IF req.k.kind = "nan" \/ req.k.v <= 0
    THEN [ok |-> FALSE, raised |-> "k_context must be a positive integer", k |-> 0]
    ELSE [ok |-> TRUE, raised |-> "None", k |-> req.k.v]

\* ------------------------------------------------- search_similar_documents
\* float(f"{score:.4f}"): a distance of d * 0.00005 in units of 0.0001.
Round4(d) == (d + 1) \div 2

Min(a, b) == IF a < b THEN a ELSE b

\* similarity_search_with_score that ignores k.
similarity_search_with_score_all(k, so) == so.hits

\* so: what the collection answers, raised or the distances of its entries to the
\* query, nearest first.  Chroma returns the k nearest.
similarity_search_with_score(k, so) == SubSeq(so.hits, 1, Min(k, Len(so.hits)))

\* search_failed that also drops the index handle.
search_failed_drops_index(svc) ==
    [context |-> <<>>, sources |-> <<>>, call |-> "raise",
     svc |-> [svc EXCEPT !.vector_db = FALSE]]

\* The except branch of search_similar_documents.
search_failed(svc) ==
    [context |-> <<>>, sources |-> <<>>, call |-> "raise", svc |-> svc]

\* search_similar_documents without its validation.
search_similar_documents_unvalidated(svc, query, k, so) ==
    IF ~svc.vector_db
    THEN [context |-> <<>>, sources |-> <<>>, call |-> "None", svc |-> svc]
    ELSE IF so.raised
    THEN search_failed(svc)
    ELSE LET similar_docs == similarity_search_with_score(k, so)
         IN  IF similar_docs = <<>>
             THEN [context |-> <<>>, sources |-> <<>>, call |-> "empty", svc |-> svc]
             ELSE [context |-> similar_docs,
                   sources |-> [i \in 1..Len(similar_docs) |-> Round4(similar_docs[i])],
                   call |-> "hits", svc |-> svc]

\* Returns the context (the contents joined, <<>> for ""), the sources and, under
\* call, what became of the index search ("None": it was not made).
search_similar_documents(svc, query, k, so) ==
    IF ~svc.vector_db
    THEN [context |-> <<>>, sources |-> <<>>, call |-> "None", svc |-> svc]
    ELSE IF ~validate_input(query).ok
    THEN [context |-> <<>>, sources |-> <<>>, call |-> "None", svc |-> svc]
    ELSE IF so.raised
    THEN search_failed(svc)
    ELSE LET similar_docs == similarity_search_with_score(k, so)
         IN  IF similar_docs = <<>>
             THEN [context |-> <<>>, sources |-> <<>>, call |-> "empty", svc |-> svc]
             ELSE [context |-> similar_docs,
                   sources |-> [i \in 1..Len(similar_docs) |-> Round4(similar_docs[i])],
                   call |-> "hits", svc |-> svc]

\* --------------------------------------------------------- generate_response
\* select_mode that never grounds the prompt.
select_mode_ungrounded(context) ==
    IF context # <<>>
    THEN [prompt |-> "query", mode |-> "RAG"]
    ELSE [prompt |-> "query", mode |-> "LLM_ONLY"]

\* select_mode that reports RAG whatever the context.
select_mode_always_rag(context) ==
    IF context # <<>>
    THEN [prompt |-> "rag_prompt", mode |-> "RAG"]
    ELSE [prompt |-> "query", mode |-> "RAG"]

\* The prompt and the mode generate_response picks for a context.
select_mode(context) ==
    IF context # <<>>
    THEN [prompt |-> "rag_prompt", mode |-> "RAG"]
    ELSE [prompt |-> "query", mode |-> "LLM_ONLY"]

\* generation_failed that also marks the generator unavailable.
generation_failed_drops_llm(svc, prompt) ==
    [text |-> "Sorry, an error occurred while generating the response",
     mode |-> "UNAVAILABLE", call |-> "raise", prompt |-> prompt,
     svc |-> [svc EXCEPT !.llm = FALSE]]

\* The except branch of generate_response.
generation_failed(svc, prompt) ==
    [text |-> "Sorry, an error occurred while generating the response",
     mode |-> "UNAVAILABLE", call |-> "raise", prompt |-> prompt, svc |-> svc]

\* generate_response without its check of the llm handle.
generate_response_unguarded(svc, query, context, go) ==
    IF ~validate_input(query).ok
    THEN [text |-> validate_input(query).err, mode |-> "UNAVAILABLE",
          call |-> "None", prompt |-> "None", svc |-> svc]
    ELSE LET m == select_mode(context)
         IN  IF go = "ok"
             THEN [text |-> "answer", mode |-> m.mode, call |-> "ok",
                   prompt |-> m.prompt, svc |-> svc]
             ELSE generation_failed(svc, m.prompt)

\* go: the outcome of llm.invoke, "ok" or "raise".  call says what became of
\* the generator call ("None": it was not made).
generate_response(svc, query, context, go) ==
    IF ~svc.llm
    THEN [text |-> "LLM not available", mode |-> "UNAVAILABLE", call |-> "None",
          prompt |-> "None", svc |-> svc]
    ELSE IF ~validate_input(query).ok
    THEN [text |-> validate_input(query).err, mode |-> "UNAVAILABLE",
          call |-> "None", prompt |-> "None", svc |-> svc]
    ELSE LET m == select_mode(context)
         IN  IF go = "ok"
             THEN [text |-> "answer", mode |-> m.mode, call |-> "ok",
                   prompt |-> m.prompt, svc |-> svc]
             ELSE generation_failed(svc, m.prompt)

\* ------------------------------------------------------------------ api_chat
\* system_unavailable that looks at the service object alone.
system_unavailable_lax(g) == ~g.rag_service.exists

\* The readiness check that refuses a chat request.
system_unavailable(g) ==
    ~g.system_ready \/ ~g.rag_service.exists \/ ~is_available(g.rag_service)

\* Whether the request's message passes validate_input ("None": it has none).
Validity(req) ==
    IF ~req.json \/ req.body # "ok" THEN "None"
    ELSE IF validate_input(req.message).ok THEN "yes" ELSE "no"

ChatError(req, code, error) ==
    [NoResp EXCEPT !.op = "chat", !.http = code, !.error = error,
                   !.valid = Validity(req)]

\* The response, and the globals as the handler leaves them.
api_chat(g, req, so, go) ==
    IF ~req.json
    THEN [g |-> g, resp |-> ChatError(req, 400, "Request must be JSON")]
    ELSE IF system_unavailable(g)
    THEN [g |-> g, resp |-> ChatError(req, 503, "System unavailable")]
    ELSE
    LET cr == from_dict(req) IN
    IF ~cr.ok
    THEN [g |-> g,
          resp |-> IF cr.raised = "AttributeError"
                   THEN ChatError(req, 500, "Chat processing failed")
                   ELSE ChatError(req, 400, cr.raised)]
    ELSE
    LET message   == strip(req.message)
        k_context == IF cr.k # 0 THEN cr.k ELSE DEFAULT_K_RETRIEVAL
    IN
    IF is_rag_ready(g.rag_service)
    THEN LET s   == search_similar_documents(g.rag_service, message, k_context, so)
             gen == generate_response(s.svc, message, s.context, go)
         IN  [g |-> [g EXCEPT !.rag_service = gen.svc],
              resp |-> [NoResp EXCEPT !.op = "chat", !.http = 200,
                            !.text = gen.text, !.mode = gen.mode,
                            !.sources = IF s.context # <<>> THEN s.sources ELSE <<>>,
                            !.context_info =
                                IF s.context # <<>> THEN "Used document sources"
                                ELSE "No relevant documents found, using LLM-only mode",
                            !.valid = Validity(req),
                            !.search_call = s.call, !.llm_call = gen.call,
                            !.prompt = gen.prompt]]
    ELSE LET gen == generate_response(g.rag_service, message, <<>>, go)
         IN  [g |-> [g EXCEPT !.rag_service = gen.svc],
              resp |-> [NoResp EXCEPT !.op = "chat", !.http = 200,
                            !.text = gen.text, !.mode = gen.mode,
                            !.context_info = "LLM-only mode (no documents available)",
                            !.valid = Validity(req),
                            !.llm_call = gen.call, !.prompt = gen.prompt]]

\* ---------------------------------------------------------- api_reinitialize
api_reinitialize(g, e) ==
    LET g1 == [g EXCEPT
                 !.document_service =
                     IF @.exists THEN document_service_clear(@) ELSE @,
                 !.rag_service = IF @.exists THEN clear(@) ELSE @,
                 !.system_ready = FALSE,
                 !.initialization_error = "None"]
        r  == initialize_system(g1, e)
    IN  [g |-> r.g, log |-> r.log,
         resp |-> [api_status(r.g) EXCEPT !.op = "reinitialize"]]

\* -------------------------------------------------------------------- inputs
Message(w, l, p) == [ws |-> w, len |-> l, pat |-> p]

\* Lengths around the limit; a pattern needs room, so it comes with 20 characters.
Messages ==
    {Message(w, l, "none") : w \in 0..1, l \in {0, max_length + 1, 6000}}
    \cup {Message(0, 1, "none"), Message(1, max_length, "none")}
    \cup {Message(0, 20, p) : p \in Patterns}

KInputs ==
    {[kind |-> "none", v |-> 0], [kind |-> "nan", v |-> 0]}
    \cup {[kind |-> "int", v |-> i] : i \in 0..MaxK}

ValidK == {k \in KInputs : k.kind = "none" \/ (k.kind = "int" /\ k.v > 0)}

RECURSIVE Rankings(_)
Rankings(n) ==
    IF n = 0 THEN {<<>>}
    ELSE LET shorter == Rankings(n - 1)
         IN  shorter \cup
             {Append(r, x) : r \in {q \in shorter : Len(q) = n - 1},
                             x \in 0..MaxDist}

Sorted(r) == \A i \in 1..(Len(r) - 1) : r[i] <= r[i + 1]

NoSearch == [raised |-> FALSE, hits |-> <<>>]

SearchOutcomes ==
    {[raised |-> TRUE, hits |-> <<>>]}
    \cup {[raised |-> FALSE, hits |-> r] : r \in {q \in Rankings(MaxHits) : Sorted(q)}}

Request(j, b, m, k) == [json |-> j, body |-> b, message |-> m, k |-> k]

DefaultMessage == Message(0, 1, "none")

\* One input per distinguishable course of a chat request: the outcome of a call
\* that cannot be made on a course keeps its default.
ChatInputs ==
    {[req |-> Request(FALSE, "ok", DefaultMessage, [kind |-> "none", v |-> 0]),
      so |-> NoSearch, go |-> "ok"],
     [req |-> Request(TRUE, "bad", DefaultMessage, [kind |-> "none", v |-> 0]),
      so |-> NoSearch, go |-> "ok"]}
    \cup {[req |-> Request(TRUE, "ok", m, k), so |-> NoSearch, go |-> "ok"] :
            m \in {x \in Messages : ~validate_input(x).ok},
            k \in {x \in KInputs : x.kind # "int"}}
    \cup {[req |-> Request(TRUE, "ok", m, k), so |-> NoSearch, go |-> "ok"] :
            m \in {x \in Messages : validate_input(x).ok}, k \in KInputs \ ValidK}
    \cup {[req |-> Request(TRUE, "ok", m, k), so |-> so, go |-> go] :
            m \in {x \in Messages : validate_input(x).ok}, k \in ValidK,
            so \in SearchOutcomes, go \in {"ok", "raise"}}

\* Nothing can fail to load from, or to be erased from, an empty directory.
Possible(e, d) ==
    d.index = <<>> => e.loadOk /\ e.locked = 0 /\ ~e.eraseErr

\* ------------------------------------------------------------------- actions
Init ==
    /\ phase = "boot"
    /\ document_service = NoDocumentService
    /\ rag_service = NoRAGService
    /\ system_ready = FALSE
    /\ initialization_error = "None"
    /\ disk \in DiskInit
    /\ init_log = NoInit
    /\ resp = NoResp
    /\ heap = <<>> /\ ref = 0 /\ pc = <<>> /\ frame = <<>>

SetGlobals(g) ==
    /\ document_service' = g.document_service
    /\ rag_service' = g.rag_service
    /\ system_ready' = g.system_ready
    /\ initialization_error' = g.initialization_error
    /\ disk' = g.disk

\* app.py __main__: initialize_system, then serve, or exit when it fails.
Startup ==
    /\ phase = "boot"
    /\ \E e \in EnvSet :
         LET r == initialize_system(Globals, e)
         IN  /\ Possible(e, disk)
             /\ count(r.g.disk) <= MaxIndex
             /\ SetGlobals(r.g)
             /\ init_log' = r.log
             /\ phase' = IF r.log.ret THEN "serving" ELSE "exited"
    /\ resp' = NoResp
    /\ UNCHANGED workers

ApiStatus ==
    /\ phase = "serving"
    /\ resp' = api_status(Globals)
    /\ UNCHANGED <<phase, shared, init_log, workers>>

ApiChat ==
    /\ phase = "serving"
    /\ \E in \in ChatInputs :
         \* The collection ranks no more entries than it holds, and a search
         \* outcome is drawn only where a search can be made.
         /\ Len(in.so.hits) <= count(disk)
         /\ in.so # NoSearch => is_rag_ready(rag_service)
         /\ LET r == api_chat(Globals, in.req, in.so, in.go)
            IN  /\ SetGlobals(r.g)
                /\ resp' = r.resp
    /\ UNCHANGED <<phase, init_log, workers>>

ApiReinitialize ==
    /\ phase = "serving"
    /\ \E e \in EnvSet :
         LET r == api_reinitialize(Globals, e)
         IN  /\ Possible(e, disk)
             /\ count(r.g.disk) <= MaxIndex
             /\ SetGlobals(r.g)
             /\ init_log' = r.log
             /\ resp' = r.resp
    /\ UNCHANGED <<phase, workers>>

Next == Startup \/ ApiStatus \/ ApiChat \/ ApiReinitialize

Spec == Init /\ [][Next]_vars

\* ------------------------------------------------- request workers, stepwise
\* The Flask server of app.run serves each request on a thread of its own, and no
\* handler takes a lock.  Here one chat request and two reinitialize requests
\* run as workers whose steps interleave; a step is a stretch of a handler
\* between two of the points where it reads or writes the globals, a service
\* object or the persisted directory.
Reinits == {"reinit1", "reinit2"}

Workers == {"chat"} \cup Reinits

\* The identity of the RAGService a worker's initialize_system makes; 1 is the
\* object made at startup.
NewId(t) == IF t = "reinit1" THEN 2 ELSE 3

NoFrame ==
    [self |-> 0, chunks |-> [n |-> 0, ver |-> "none"], context |-> <<>>,
     sources |-> <<>>, search_call |-> "None"]

\* A write to a field of the object `id`: the global rag_service shows it when it
\* names that object.
SetObject(id, svc) ==
    /\ heap' = [heap EXCEPT ![id] = svc]
    /\ rag_service' = IF id = ref THEN svc ELSE rag_service

\* The system as a successful startup left it.
StartupEnvs ==
    {[EnvDefault EXCEPT !.chunks = n] : n \in 1..MaxChunks}
    \cup {[EnvDefault EXCEPT !.files = 0, !.chunks = 0]}

WorkersInit ==
    /\ phase = "serving"
    /\ init_log = NoInit
    /\ resp = NoResp
    /\ \E d \in DiskInit, e \in StartupEnvs :
         LET g0 == [document_service |-> NoDocumentService,
                    rag_service |-> NoRAGService, system_ready |-> FALSE,
                    initialization_error |-> "None", disk |-> d]
             r  == initialize_system(g0, e)
         IN  /\ count(r.g.disk) <= MaxIndex
             /\ document_service = r.g.document_service
             /\ rag_service = r.g.rag_service
             /\ system_ready = r.g.system_ready
             /\ initialization_error = r.g.initialization_error
             /\ disk = r.g.disk
             /\ heap = [i \in 1..3 |-> IF i = 1 THEN r.g.rag_service ELSE NoRAGService]
    /\ ref = 1
    /\ pc = [w \in Workers |-> "idle"]
    /\ frame = [w \in Workers |-> NoFrame]

Goto(w, label) == pc' = [pc EXCEPT ![w] = label]

\* The request of the chat worker: a valid message and no k_context.
ChatRequest == Request(TRUE, "ok", DefaultMessage, [kind |-> "none", v |-> 0])

\* api_chat up to the parsed request (app.py:148-168).
ChatGate ==
    /\ pc["chat"] = "idle"
    /\ IF system_unavailable(Globals)
       THEN /\ resp' = ChatError(ChatRequest, 503, "System unavailable")
            /\ Goto("chat", "done")
       ELSE /\ resp' = resp
            /\ Goto("chat", "mode")
    /\ UNCHANGED <<phase, shared, init_log, heap, ref, frame>>

\* The choice of the branch and, on the RAG branch, search_similar_documents up
\* to the call of the collection's search (app.py:170-174, rag_service.py:192-208).
ChatEnter ==
    /\ pc["chat"] = "mode"
    /\ IF is_rag_ready(rag_service)
       THEN /\ frame' = [frame EXCEPT !["chat"].self = ref]
            /\ Goto("chat", "searching")
       ELSE /\ frame' = frame
            /\ Goto("chat", "generate")
    /\ UNCHANGED <<phase, shared, init_log, resp, heap, ref>>

\* The collection's search returns, from the directory as it is now, and
\* search_similar_documents ends (rag_service.py:208-233).
ChatSearched ==
    /\ pc["chat"] = "searching"
    /\ \E so \in SearchOutcomes :
         /\ Len(so.hits) <= count(disk)
         /\ LET held == [heap[frame["chat"].self] EXCEPT !.vector_db = TRUE]
                s    == search_similar_documents(held, strip(ChatRequest.message),
                                                 DEFAULT_K_RETRIEVAL, so)
            IN  frame' = [frame EXCEPT !["chat"].context = s.context,
                                       !["chat"].sources = s.sources,
                                       !["chat"].search_call = s.call]
    /\ Goto("chat", "generate")
    /\ UNCHANGED <<phase, shared, init_log, resp, heap, ref>>

\* generate_response on the object the global names now, and the response
\* (app.py:176-202).
ChatGenerate ==
    /\ pc["chat"] = "generate"
    /\ \E go \in {"ok", "raise"} :
         LET f   == frame["chat"]
             gen == generate_response(rag_service, strip(ChatRequest.message),
                                      f.context, go)
         IN  resp' = [NoResp EXCEPT !.op = "chat", !.http = 200,
                         !.text = gen.text, !.mode = gen.mode,
                         !.sources = IF f.context # <<>> THEN f.sources ELSE <<>>,
                         !.context_info =
                             IF f.context # <<>> THEN "Used document sources"
                             ELSE IF f.self # 0
                             THEN "No relevant documents found, using LLM-only mode"
                             ELSE "LLM-only mode (no documents available)",
                         !.valid = "yes", !.search_call = f.search_call,
                         !.llm_call = gen.call, !.prompt = gen.prompt]
    /\ Goto("chat", "done")
    /\ UNCHANGED <<phase, shared, init_log, heap, ref, frame>>

\* api_reinitialize: the release of the services and the reset of the flags
\* (app.py:222-229).
ReinitClear(t) ==
    /\ pc[t] = "idle"
    /\ document_service' = document_service_clear(document_service)
    /\ SetObject(ref, clear(rag_service))
    /\ system_ready' = FALSE
    /\ initialization_error' = "None"
    /\ Goto(t, "init")
    /\ UNCHANGED <<phase, disk, init_log, resp, ref, frame>>

\* initialize_system: Config.validate, the new service objects and
\* initialize_llm (app.py:42-58).
ReinitCreate(t) ==
    /\ pc[t] = "init"
    /\ \E up \in BOOLEAN :
         LET llm == initialize_llm(RAGService, [EnvDefault EXCEPT !.llmUp = up])
         IN  /\ document_service' = DocumentService
             /\ ref' = NewId(t)
             /\ heap' = [heap EXCEPT ![NewId(t)] = llm.svc]
             /\ rag_service' = llm.svc
             /\ initialization_error' =
                    IF llm.ok THEN initialization_error ELSE llm.err
             /\ Goto(t, IF llm.ok THEN "load" ELSE "respond")
    /\ UNCHANGED <<phase, system_ready, disk, init_log, resp, frame>>

\* A soft failure inside a worker: system_ready is set and the handler goes on
\* to its response (app.py:62-89).
SoftExit(t) ==
    /\ system_ready' = TRUE
    /\ Goto(t, "respond")

\* load_documents, create_chunks and initialize_embedding_model, on the objects
\* the globals name now (app.py:61-80).
ReinitLoad(t) ==
    /\ pc[t] = "load"
    /\ \E e \in StartupEnvs, up \in BOOLEAN :
         LET doc == load_documents(document_service, e)
             chk == create_chunks(doc.ds, e)
             emb == initialize_embedding_model(rag_service, [e EXCEPT !.embUp = up])
         IN  IF ~doc.ok
             THEN /\ up
                  /\ document_service' = doc.ds
                  /\ UNCHANGED <<heap, rag_service>>
                  /\ SoftExit(t)
             ELSE /\ document_service' = chk.ds
                  /\ SetObject(ref, emb.svc)
                  /\ IF emb.ok
                     THEN system_ready' = system_ready /\ Goto(t, "vector")
                     ELSE SoftExit(t)
    /\ UNCHANGED <<phase, initialization_error, disk, init_log, resp, ref, frame>>

\* initialize_vector_store on the object the global names now, up to the point
\* where _rebuild_vector_store has dropped the handle (app.py:83-85,
\* rag_service.py:76-145); without a rebuild it ends here (app.py:91).
ReinitCheck(t) ==
    /\ pc[t] = "vector"
    /\ \E ok \in BOOLEAN :
         LET self   == ref
             chunks == get_chunks(document_service)
             d1     == [disk EXCEPT !.exists = TRUE]
             chk    == _check_vector_store_rebuild(
                           heap[self], d1, chunks, [EnvDefault EXCEPT !.loadOk = ok])
         IN  /\ disk.index = <<>> => ok
             /\ IF heap[self].embedding_model = 0 \/ chunks.n = 0
                THEN /\ UNCHANGED <<heap, rag_service, disk, frame>>
                     /\ ok
                     /\ SoftExit(t)
                ELSE /\ disk' = d1
                     /\ IF chk.needs
                        THEN /\ SetObject(self, [heap[self] EXCEPT !.vector_db = FALSE])
                             /\ frame' = [frame EXCEPT ![t].self = self,
                                                        ![t].chunks = chunks]
                             /\ system_ready' = system_ready
                             /\ Goto(t, "erase")
                        ELSE /\ SetObject(self, chk.svc)
                             /\ frame' = frame
                             /\ SoftExit(t)
    /\ UNCHANGED <<phase, document_service, initialization_error, init_log, resp, ref>>

\* _clean_vector_store_directory (rag_service.py:148).
ReinitErase(t) ==
    /\ pc[t] = "erase"
    /\ \E k \in {0, MAX_REBUILD_ATTEMPTS} :
         /\ Possible([EnvDefault EXCEPT !.locked = k], disk)
         /\ disk' = _clean_vector_store_directory(
                         disk, [EnvDefault EXCEPT !.locked = k]).disk
    /\ Goto(t, "build")
    /\ UNCHANGED <<phase, document_service, rag_service, system_ready,
                   initialization_error, init_log, resp, heap, ref, frame>>

\* Chroma.from_documents with the worker's own object and chunks, and the end of
\* initialize_system (rag_service.py:151-162, app.py:86-91).
ReinitBuild(t) ==
    /\ pc[t] = "build"
    /\ \E ok \in BOOLEAN :
         LET self == frame[t].self
             emb  == heap[self].embedding_model
         IN  IF ok /\ emb # 0
             THEN /\ count(disk) + frame[t].chunks.n <= MaxIndex
                  /\ disk' = from_documents(disk, frame[t].chunks, emb)
                  /\ SetObject(self, [heap[self] EXCEPT !.vector_db = TRUE])
             ELSE /\ ~ok
                  /\ UNCHANGED <<disk, heap, rag_service>>
    /\ SoftExit(t)
    /\ UNCHANGED <<phase, document_service, initialization_error, init_log, resp,
                   ref, frame>>

\* return api_status() (app.py:239).
ReinitRespond(t) ==
    /\ pc[t] = "respond"
    /\ resp' = [api_status(Globals) EXCEPT !.op = "reinitialize"]
    /\ Goto(t, "done")
    /\ UNCHANGED <<phase, shared, init_log, heap, ref, frame>>

WorkersNext ==
    \/ ChatGate
    \/ ChatEnter
    \/ ChatSearched
    \/ ChatGenerate
    \/ \E t \in Reinits : ReinitClear(t)
    \/ \E t \in Reinits : ReinitCreate(t)
    \/ \E t \in Reinits : ReinitLoad(t)
    \/ \E t \in Reinits : ReinitCheck(t)
    \/ \E t \in Reinits : ReinitErase(t)
    \/ \E t \in Reinits : ReinitBuild(t)
    \/ \E t \in Reinits : ReinitRespond(t)

WorkersSpec == WorkersInit /\ [][WorkersNext]_vars

\* ------------------------------------------------ one RAGService, any calls
\* The public methods of one RAGService called in any order, as a caller other
\* than initialize_system may: pc names the last call and frame holds what it
\* returned.
ServiceInit ==
    /\ phase = "boot"
    /\ document_service = NoDocumentService
    /\ rag_service = RAGService
    /\ system_ready = FALSE
    /\ initialization_error = "None"
    /\ disk \in DiskInit
    /\ init_log = NoInit
    /\ resp = NoResp
    /\ heap = <<>> /\ ref = 0
    /\ pc = "none"
    /\ frame = [ok |-> TRUE, err |-> "None"]

Returned(call, ok, err) ==
    /\ pc' = call
    /\ frame' = [ok |-> ok, err |-> err]
    /\ UNCHANGED <<phase, document_service, system_ready, initialization_error,
                   init_log, resp, heap, ref>>

CallInitializeLlm ==
    \E up \in BOOLEAN :
        LET r == initialize_llm(rag_service, [EnvDefault EXCEPT !.llmUp = up])
        IN  /\ rag_service' = r.svc
            /\ disk' = disk
            /\ Returned("initialize_llm", r.ok, r.err)

CallInitializeEmbeddingModel ==
    \E up \in BOOLEAN :
        LET r == initialize_embedding_model(rag_service,
                                            [EnvDefault EXCEPT !.embUp = up])
        IN  /\ rag_service' = r.svc
            /\ disk' = disk
            /\ Returned("initialize_embedding_model", r.ok, r.err)

\* The chunk list is the caller's: any list, the empty one included.
CallInitializeVectorStore ==
    \E n \in 0..MaxChunks, l \in BOOLEAN, k \in {0, MAX_REBUILD_ATTEMPTS},
       b \in BOOLEAN :
        LET e  == [EnvDefault EXCEPT !.loadOk = l, !.locked = k, !.buildOk = b]
            r  == initialize_vector_store(
                      rag_service, disk,
                      [n |-> n, ver |-> IF n = 0 THEN "none" ELSE "v1"], e)
        IN  /\ Possible(e, disk)
            /\ count(r.disk) <= MaxIndex
            /\ rag_service' = r.svc
            /\ disk' = r.disk
            /\ Returned("initialize_vector_store", r.ok, r.err)

CallClear ==
    /\ rag_service' = clear(rag_service)
    /\ disk' = disk
    /\ Returned("clear", TRUE, "None")

ServiceNext ==
    \/ CallInitializeLlm
    \/ CallInitializeEmbeddingModel
    \/ CallInitializeVectorStore
    \/ CallClear

ServiceSpec == ServiceInit /\ [][ServiceNext]_vars

\* ------------------------------------------------------------- chunk_text
\* utils/text_processing.py chunk_text, one iteration of its loop per step.
\* A text is a sequence of characters, "a" for any non-whitespace character
\* and " " for any whitespace one.
RECURSIVE Texts(_)
Texts(n) ==
    IF n = 0 THEN {<<>>}
    ELSE LET shorter == Texts(n - 1)
         IN  shorter \cup {Append(t, c) : t \in {u \in shorter : Len(u) = n - 1},
                                          c \in {"a", " "}}

\* A slice index as Python resolves it: a negative one counts from the end,
\* and the result is clipped to 0..len.
SliceIndex(i, len) ==
    IF i < 0 THEN (IF i + len < 0 THEN 0 ELSE i + len)
    ELSE IF i > len THEN len ELSE i

\* text[start:end]
Slice(text, start, end) ==
    LET s == SliceIndex(start, Len(text))
        e == SliceIndex(end, Len(text))
    IN  IF s < e THEN SubSeq(text, s + 1, e) ELSE <<>>

\* chunk.strip(), as a truth value: the chunk has a non-whitespace character.
stripped(chunk) == \E i \in 1..Len(chunk) : chunk[i] # " "

\* Below StartFloor both ends of every slice lie before the text, so every
\* lower value of start behaves as StartFloor does; start is kept there.
StartFloor == 0 - (MaxText + MaxSize)

\* chunks.append(chunk)
append(chunks, chunk) ==
    IF Len(chunks) < MaxOut THEN Append(chunks, chunk) ELSE chunks

ChunkInit ==
    /\ phase = "boot"
    /\ document_service = NoDocumentService
    /\ rag_service = NoRAGService
    /\ system_ready = FALSE
    /\ initialization_error = "None"
    /\ disk = [exists |-> FALSE, index |-> <<>>]
    /\ init_log = NoInit
    /\ resp = NoResp
    /\ heap = <<>> /\ ref = 0
    /\ pc = "chunk_text"
    /\ frame \in [text : Texts(MaxText), chunk_size : 0..MaxSize,
                   overlap : 0..MaxOverlap, start : {0}, end : {0},
                   chunks : {<<>>}]

\* if not text or chunk_size <= 0: return []; chunks = []; start = 0
ChunkEnter ==
    /\ pc = "chunk_text"
    /\ pc' = IF frame.text = <<>> \/ frame.chunk_size <= 0
             THEN "returned" ELSE "while"
    /\ frame' = [frame EXCEPT !.start = 0, !.chunks = <<>>]
    /\ UNCHANGED <<shared, phase, init_log, resp, heap, ref>>

\* while start < len(text)
ChunkTest ==
    /\ pc = "while"
    /\ pc' = IF frame.start < Len(frame.text) THEN "body" ELSE "returned"
    /\ frame' = frame
    /\ UNCHANGED <<shared, phase, init_log, resp, heap, ref>>

\* One run of the loop body, its closing break included.
ChunkBody ==
    /\ pc = "body"
    /\ LET end   == Min(frame.start + frame.chunk_size, Len(frame.text))
           chunk == Slice(frame.text, frame.start, end)
           next  == IF frame.overlap > 0 THEN end - frame.overlap ELSE end
       IN  /\ frame' = [frame EXCEPT
                  !.end = end,
                  !.chunks = IF stripped(chunk) THEN append(@, chunk) ELSE @,
                  !.start = IF next < StartFloor THEN StartFloor ELSE next]
           /\ pc' = IF next >= end THEN "returned" ELSE "while"
    /\ UNCHANGED <<shared, phase, init_log, resp, heap, ref>>

ChunkNext ==
    \/ ChunkEnter
    \/ ChunkTest
    \/ ChunkBody

\* The interpreter runs the call: a step that can be taken is taken.
ChunkSpec == ChunkInit /\ [][ChunkNext]_vars /\ WF_vars(ChunkNext)

\* ==================================================================== claims
Apology == "Sorry, an error occurred while generating the response"

\* Inputs of a chat request that passes every check of the request.
GoodInputs ==
    {in \in ChatInputs :
        /\ in.req.json /\ in.req.body = "ok"
        /\ validate_input(in.req.message).ok
        /\ in.req.k \in ValidK}

Feasible(in) == Len(in.so.hits) <= count(disk)

NoCalls(r) == r.search_call = "None" /\ r.llm_call = "None"

LlmFailed ==
    /\ init_log.steps # <<>>
    /\ init_log.steps[Len(init_log.steps)] = "llm"
    /\ ~init_log.llm_ok

\* C1 -- Mode monotonicity.  In every reachable state where the llm handle is
\* unset, the last chat response reports neither RAG nor LLM_ONLY and made no
\* index search and no generator call; and whatever the embedder and the index
\* handle were, every chat request, and generate_response itself, would report
\* neither mode and make neither call.
ModeMonotonicity ==
    ~is_available(rag_service) =>
        /\ resp.op = "chat" =>
             resp.mode \notin {"RAG", "LLM_ONLY"} /\ NoCalls(resp)
        /\ \A in \in ChatInputs, emb \in 0..HF_EMBEDDING_MODEL_NAME, vdb \in BOOLEAN :
             LET svc == [rag_service EXCEPT !.embedding_model = emb, !.vector_db = vdb]
                 r   == api_chat([Globals EXCEPT !.rag_service = svc],
                                 in.req, in.so, in.go).resp
                 gen == generate_response(svc, strip(in.req.message), in.so.hits, in.go)
             IN  /\ r.mode \notin {"RAG", "LLM_ONLY"} /\ NoCalls(r)
                 /\ gen.mode = "UNAVAILABLE" /\ gen.call = "None"

\* A chat request was refused while the llm handle was unset.
ModeMonotonicityWitness ==
    /\ resp.op = "chat" /\ resp.http = 503
    /\ rag_service.exists /\ ~is_available(rag_service)

\* C2 -- Once initialize_system has returned, system_ready is true exactly when
\* the generator was initialized, and so is the value returned; an
\* initialization that logged a soft failure (documents, chunks, embedder, index
\* store) has system_ready true and returned True.
SystemReadyIffGenerator ==
    init_log.steps # <<>> =>
        /\ system_ready <=> init_log.llm_ok
        /\ system_ready <=> (rag_service.exists /\ is_available(rag_service))
        /\ init_log.ret <=> init_log.llm_ok
        /\ init_log.soft # "None" => system_ready /\ init_log.ret

\* The index store failed to initialize and the system is usable.
SystemReadyIffGeneratorWitness ==
    /\ init_log.soft = "vector" /\ system_ready /\ init_log.ret
    /\ ~is_rag_ready(rag_service)

\* C3 -- When the last initialize_system failed at the generator, it returned
\* False after the llm step with nothing loaded and no embedder or index store
\* set, a diagnostic is recorded, the last chat request was refused without a
\* search or a generator call, every chat request would be, and the last status
\* reports every readiness flag false.
GeneratorFailureIsFatal ==
    LlmFailed =>
        /\ ~init_log.ret /\ ~system_ready
        /\ \A i \in 1..Len(init_log.steps) :
             init_log.steps[i] \notin {"docs", "chunks", "embed", "vector"}
        /\ document_service.loaded_documents = 0 /\ document_service.chunks = 0
        /\ rag_service.embedding_model = 0 /\ ~rag_service.vector_db
        /\ initialization_error # "None"
        /\ resp.op = "chat" => resp.http \in {400, 503} /\ NoCalls(resp)
        /\ \A in \in ChatInputs :
             LET r == api_chat(Globals, in.req, in.so, in.go).resp
             IN  r.http \in {400, 503} /\ NoCalls(r) /\ r.mode = "None"
        /\ resp.op \in {"status", "reinitialize"} =>
             /\ ~resp.rag_pipeline_ready /\ ~resp.llm_ready /\ ~resp.db_ready
             /\ resp.initialization_error = initialization_error

\* A reinitialize failed at the generator and a chat request was then refused.
GeneratorFailureIsFatalWitness ==
    /\ LlmFailed /\ phase = "serving" /\ initialization_error = "llm"
    /\ resp.op = "chat" /\ resp.error = "System unavailable"

\* C4 -- (the claim as stated) when the last initialization logged a soft
\* failure of the embedder or of the index store, the diagnostic is retained and
\* every status returns a non-null initialization diagnostic.
SoftInitDiagnosticRetained ==
    init_log.soft \in {"embed", "vector"} =>
        /\ initialization_error # "None"
        /\ resp.op \in {"status", "reinitialize"} =>
             resp.initialization_error # "None"

\* C5 -- A chat request whose index search was made and yielded no chunks, and
\* whose generator call succeeded, is answered from the bare query with mode
\* LLM_ONLY and no sources; the full pipeline is still ready after it, and every
\* acceptable request whose search then yields chunks would be answered in RAG
\* mode with sources.
FallbackIsPerRequest ==
    (resp.op = "chat" /\ resp.search_call \in {"empty", "raise"}
        /\ resp.llm_call = "ok") =>
        /\ resp.http = 200 /\ resp.mode = "LLM_ONLY" /\ resp.sources = <<>>
        /\ resp.prompt = "query"
        /\ is_rag_ready(rag_service)
        /\ \A in \in GoodInputs :
             (Feasible(in) /\ ~in.so.raised /\ in.so.hits # <<>> /\ in.go = "ok") =>
                LET r == api_chat(Globals, in.req, in.so, in.go).resp
                IN  r.mode = "RAG" /\ r.sources # <<>>

\* A search that found nothing was answered in LLM_ONLY mode.
FallbackIsPerRequestWitness ==
    /\ resp.op = "chat" /\ resp.search_call = "empty" /\ resp.llm_call = "ok"
    /\ resp.mode = "LLM_ONLY" /\ is_rag_ready(rag_service)

\* C6 -- A chat request whose generator call raised is answered (HTTP 200, no
\* exception escapes) with the fixed apology and mode UNAVAILABLE; the llm handle
\* is still set after it, and every acceptable request whose generator call then
\* succeeds would be answered in RAG or LLM_ONLY mode.
GeneratorFailureIsPerRequest ==
    (resp.op = "chat" /\ resp.llm_call = "raise") =>
        /\ resp.http = 200 /\ resp.error = "None"
        /\ resp.text = Apology /\ resp.mode = "UNAVAILABLE"
        /\ is_available(rag_service) /\ system_ready
        /\ \A in \in GoodInputs :
             (in.go = "ok" /\ (in.so # NoSearch => is_rag_ready(rag_service))
                 /\ Feasible(in)) =>
                api_chat(Globals, in.req, in.so, in.go).resp.mode \in {"RAG", "LLM_ONLY"}

\* The generator call of a chat request raised.
GeneratorFailureIsPerRequestWitness ==
    resp.op = "chat" /\ resp.llm_call = "raise" /\ resp.text = Apology

\* C7 -- Every step that sends a chat response leaves the service objects,
\* system_ready, initialization_error and the persisted directory as they were.
ChatLeavesSharedStateUnchanged ==
    [][resp'.op = "chat" => UNCHANGED shared]_vars

\* A chat request whose search and whose generator call both raised was served
\* with the full pipeline ready.
ChatLeavesSharedStateUnchangedWitness ==
    /\ resp.op = "chat" /\ resp.search_call = "raise" /\ resp.llm_call = "raise"
    /\ is_rag_ready(rag_service)

\* C8 -- A chat request whose message fails validate_input makes no index
\* search and no generator call, whatever is ready.
ValidationShortCircuits ==
    (resp.op = "chat" /\ resp.valid = "no") => NoCalls(resp)

\* An oversized message was rejected while the full pipeline was ready.
ValidationShortCircuitsWitness ==
    /\ resp.op = "chat" /\ resp.valid = "no" /\ resp.http = 200
    /\ resp.text = "Input too long" /\ is_rag_ready(rag_service)

\* C9 -- (the claim as stated) the HTTP status, error and mode of a response to
\* a message rejected by validation differ from those of every response to a
\* request whose generator call failed.
Code(r) == <<r.http, r.error, r.mode>>

ValidationDistinctFromGeneratorFailure ==
    (resp.op = "chat" /\ resp.valid = "no") =>
        \A in \in GoodInputs :
            LET r == api_chat(Globals, in.req, in.so, in.go).resp
            IN  r.llm_call = "raise" => Code(r) # Code(resp)

\* C10 -- (the claim as stated) whenever the last initialization rebuilt the
\* index store with success, the persisted collection holds as many entries as
\* there are chunks.
RebuildCountEqualsChunks ==
    (init_log.rebuilt /\ init_log.vs_ok) => count(disk) = document_service.chunks

\* The environment of an initialization that finds the corpus as the document
\* service holds it, with every collaborator working.
SameCorpusEnv ==
    [EnvDefault EXCEPT !.chunks = document_service.chunks, !.ver = document_service.ver]

\* C11 -- (the claim as stated) whenever the last initialization ended with the
\* index store initialized, the staleness check run again on the same chunks
\* reports fresh, and a second initialization with the corpus unchanged and
\* every collaborator working performs no rebuild.
StalenessCheckIdempotent ==
    (init_log.vs_ok /\ phase = "serving") =>
        /\ ~_check_vector_store_rebuild(rag_service, disk,
                                        get_chunks(document_service), SameCorpusEnv).needs
        /\ ~api_reinitialize(Globals, SameCorpusEnv).log.rebuilt

\* C12 -- (the claim as stated) whenever the erasure of the last rebuild met a
\* PermissionError on every attempt, the index handle is unset, the full
\* pipeline is not ready while the generator is, and the initialization returned.
LockedRebuildLeavesIndexUninitialized ==
    init_log.clean = "locked" =>
        /\ ~rag_service.vector_db
        /\ ~is_rag_ready(rag_service) /\ is_available(rag_service)
        /\ init_log.ret

\* C13 -- (the claim as stated) whenever the index handle is set, every entry of
\* the persisted collection was embedded by the embedder the service holds; in
\* particular, an initialization that reused the persisted collection reused
\* one that the configured embedder made.
IndexFromConfiguredEmbedder ==
    (rag_service.vector_db /\ init_log.vs_ok /\ ~init_log.rebuilt) =>
        \A i \in 1..Len(disk.index) :
            disk.index[i].emb = rag_service.embedding_model

\* C14 -- (the claim as stated) whenever the index handle is set, the persisted
\* collection holds the chunks of the latest corpus load; in particular, an
\* initialization that reused the persisted collection reused one cut from the
\* content the document service holds.
IndexFromCurrentChunks ==
    (rag_service.vector_db /\ init_log.vs_ok /\ ~init_log.rebuilt) =>
        /\ count(disk) = document_service.chunks
        /\ \A i \in 1..Len(disk.index) : disk.index[i].ver = document_service.ver

\* The capability mode the system serves in.
CapabilityMode(g) ==
    IF ~g.system_ready \/ ~g.rag_service.exists THEN "UNAVAILABLE"
    ELSE IF is_rag_ready(g.rag_service) THEN "RAG"
    ELSE IF is_available(g.rag_service) THEN "LLM_ONLY"
    ELSE "UNAVAILABLE"

Released(g) ==
    /\ ~g.rag_service.llm /\ g.rag_service.embedding_model = 0
    /\ ~g.rag_service.vector_db
    /\ g.document_service.loaded_documents = 0 /\ g.document_service.chunks = 0

\* C17 -- A reinitialize that stops at Config.validate, before any service is
\* made anew, leaves every handle released, system_ready false and only its own
\* diagnostic: the release and the reset come first.  And in every serving
\* state, for every environment, a second reinitialize in the same environment
\* ends with the same system_ready, capability mode, diagnostic and status
\* response as the first.
ReinitializeReleasesThenIdempotent ==
    phase = "serving" =>
        /\ (resp.op = "reinitialize" /\ init_log.steps = <<"config">>) =>
              Released(Globals) /\ ~system_ready /\ initialization_error = "config"
        /\ \A e \in EnvSet :
              Possible(e, disk) =>
                LET r1 == api_reinitialize(Globals, e)
                    r2 == api_reinitialize(r1.g, e)
                IN  /\ r1.log.steps = <<"config">> =>
                          /\ Released(r1.g) /\ ~r1.g.system_ready
                          /\ r1.g.initialization_error = "config"
                    /\ r2.g.system_ready = r1.g.system_ready
                    /\ CapabilityMode(r2.g) = CapabilityMode(r1.g)
                    /\ r2.g.initialization_error = r1.g.initialization_error
                    /\ r2.resp = r1.resp
                    /\ r2.log.ret = r1.log.ret /\ r2.log.soft = r1.log.soft

\* A reinitialize of a system that had served failed at Config.validate.
ReinitializeReleasesThenIdempotentWitness ==
    /\ phase = "serving" /\ resp.op = "reinitialize"
    /\ init_log.steps = <<"config">> /\ rag_service.exists
    /\ disk.index # <<>>

\* The sources a request is due: the k nearest entries, nearest first, with
\* their distances as the response prints them.
DueSources(in) ==
    LET k == IF in.req.k.kind = "int" THEN in.req.k.v ELSE DEFAULT_K_RETRIEVAL
        n == IF Len(in.so.hits) < k THEN Len(in.so.hits) ELSE k
    IN  [i \in 1..n |-> (in.so.hits[i] + 1) \div 2]

\* C18 -- A chat response whose search found chunks and whose generator call
\* succeeded reports HTTP 200, mode RAG, the grounded prompt and a non-empty
\* list of sources; and with the full pipeline ready, every acceptable request
\* whose search finds chunks and whose generator call succeeds would be answered
\* so, with the retrieved chunks as its sources.
RagHappyPath ==
    /\ (resp.op = "chat" /\ resp.search_call = "hits" /\ resp.llm_call = "ok") =>
          /\ resp.http = 200 /\ resp.mode = "RAG" /\ resp.prompt = "rag_prompt"
          /\ resp.sources # <<>> /\ resp.text = "answer"
    /\ (system_ready /\ is_rag_ready(rag_service)) =>
          \A in \in GoodInputs :
            (Feasible(in) /\ ~in.so.raised /\ in.so.hits # <<>> /\ in.go = "ok") =>
                LET r == api_chat(Globals, in.req, in.so, in.go).resp
                IN  /\ r.http = 200 /\ r.mode = "RAG" /\ r.prompt = "rag_prompt"
                    /\ r.search_call = "hits" /\ r.llm_call = "ok"
                    /\ r.sources = DueSources(in)
                    /\ r.context_info = "Used document sources"

\* A request was answered in RAG mode from two retrieved chunks.
RagHappyPathWitness ==
    /\ resp.op = "chat" /\ resp.mode = "RAG" /\ resp.prompt = "rag_prompt"
    /\ Len(resp.sources) = 2 /\ resp.llm_call = "ok"

\* C19 -- Whenever the index handle is set, for every valid query, every k >= 1
\* and every answer of the collection, search_similar_documents returns at most
\* k sources, in non-decreasing distance (most similar first), one per text of
\* the context and in the same order; and the sources of every chat response
\* are in that order.
SearchReturnsAtMostKSorted ==
    /\ resp.op = "chat" => Sorted(resp.sources)
    /\ rag_service.vector_db =>
          \A m \in {x \in Messages : validate_input(x).ok}, k \in 1..(MaxK + 1),
             so \in SearchOutcomes :
               Len(so.hits) <= count(disk) =>
                 LET s == search_similar_documents(rag_service, strip(m), k, so)
                 IN  /\ Len(s.sources) <= k
                     /\ Sorted(s.sources)
                     /\ Len(s.context) = Len(s.sources)
                     /\ \A i \in 1..Len(s.sources) :
                           /\ s.context[i] = so.hits[i]
                           /\ s.sources[i] = (so.hits[i] + 1) \div 2

\* A response listed two sources, the nearer one first.
SearchReturnsAtMostKSortedWitness ==
    /\ resp.op = "chat" /\ resp.search_call = "hits"
    /\ Len(resp.sources) = 2 /\ resp.sources[1] < resp.sources[2]

\* C20 -- Whenever the last initialization had a working generator and loaded
\* no document, it stopped after the document step with a soft failure,
\* returned True with system_ready set, and left the embedder and the index
\* handle unset; every status reports llm_ready true, rag_pipeline_ready false
\* and no loaded document; and every chat request whose generator call succeeds
\* is answered in LLM_ONLY mode without a search.
EmptyCorpusServesLlmOnly ==
    (init_log.llm_ok /\ document_service.loaded_documents = 0) =>
        /\ init_log.steps = <<"config", "llm", "docs">> /\ init_log.soft = "docs"
        /\ init_log.ret /\ system_ready /\ is_available(rag_service)
        /\ rag_service.embedding_model = 0 /\ ~rag_service.vector_db
        /\ LET st == api_status(Globals)
           IN  /\ st.llm_ready /\ ~st.rag_pipeline_ready /\ ~st.db_ready
               /\ st.loaded_documents = 0
        /\ resp.op \in {"status", "reinitialize"} =>
              resp.llm_ready /\ ~resp.rag_pipeline_ready /\ resp.loaded_documents = 0
        /\ (resp.op = "chat" /\ resp.llm_call = "ok") =>
              resp.mode = "LLM_ONLY" /\ resp.search_call = "None" /\ resp.sources = <<>>
        /\ \A in \in GoodInputs :
              in.go = "ok" =>
                LET r == api_chat(Globals, in.req, in.so, in.go).resp
                IN  r.mode = "LLM_ONLY" /\ r.search_call = "None" /\ r.sources = <<>>

\* With an empty corpus a chat request was answered in LLM_ONLY mode.
EmptyCorpusServesLlmOnlyWitness ==
    /\ init_log.soft = "docs" /\ document_service.loaded_filenames = 0
    /\ resp.op = "chat" /\ resp.mode = "LLM_ONLY" /\ resp.llm_call = "ok"

\* A reinitialize worker is inside _rebuild_vector_store: it has dropped the
\* handle and is erasing the persisted directory or building into it.
Rebuilding(t) == pc[t] \in {"erase", "build"}

\* A reinitialize worker is between its release of the services and the end of
\* its initialize_system.
Initializing(t) == pc[t] \in {"init", "load", "vector", "erase", "build"}

\* C15 -- (the claim as stated) the chat worker is never inside the collection's
\* similarity search while a reinitialize worker is erasing or rebuilding the
\* persisted directory.
ChatExcludedFromRebuild ==
    ~(pc["chat"] = "searching" /\ \E t \in Reinits : Rebuilding(t))

\* C16 -- (the claim as stated) at most one reinitialize worker at a time is
\* between its release of the services and the end of its initialize_system.
ReinitializeMutuallyExclusive ==
    \A t1, t2 \in Reinits : (Initializing(t1) /\ Initializing(t2)) => t1 = t2

\* The batch a build of the current chunks by the current embedder adds.
CurrentBatch ==
    [n |-> document_service.chunks, ver |-> document_service.ver,
     emb |-> rag_service.embedding_model]

\* C21 -- In every reachable state, whatever number of erasure attempts meet a
\* PermissionError (even more than MAX_REBUILD_ATTEMPTS) and whether or not the
\* first raises another exception, _clean_vector_store_directory returns after
\* at most MAX_REBUILD_ATTEMPTS attempts and fewer waits than attempts (none
\* after the last attempt), and a rebuild whose build succeeds then adds the
\* chunks and sets the handle; and whenever the erasure of the last
\* initialization failed, the rebuild went on: it succeeded with the current
\* chunks built into the collection, or ended in a soft failure.
BoundedErasureRetry ==
    /\ \A k \in 0..(MAX_REBUILD_ATTEMPTS + 1), err \in BOOLEAN, n \in 1..MaxChunks :
          LET e  == [EnvDefault EXCEPT !.locked = k, !.eraseErr = err]
              c  == _clean_vector_store_directory(disk, e)
              ch == [n |-> n, ver |-> "v1"]
              rb == _rebuild_vector_store(
                        [RAGService EXCEPT !.llm = TRUE,
                                           !.embedding_model = HF_EMBEDDING_MODEL_NAME],
                        disk, ch, e)
          IN  /\ c.attempts <= MAX_REBUILD_ATTEMPTS
              /\ c.sleeps <= MAX_REBUILD_ATTEMPTS - 1
              /\ c.attempts > 0 => c.sleeps < c.attempts
              /\ (disk.exists /\ ~err /\ k >= MAX_REBUILD_ATTEMPTS) =>
                    /\ ~c.cleaned /\ c.disk = disk
                    /\ c.attempts = MAX_REBUILD_ATTEMPTS
                    /\ c.sleeps = MAX_REBUILD_ATTEMPTS - 1
              /\ (disk.exists /\ ~err /\ k < MAX_REBUILD_ATTEMPTS) =>
                    c.cleaned /\ c.attempts = k + 1 /\ c.sleeps = k
              /\ rb.ok /\ rb.svc.vector_db
              /\ rb.disk.index # <<>>
              /\ rb.disk.index[Len(rb.disk.index)] =
                    [n |-> n, ver |-> "v1", emb |-> HF_EMBEDDING_MODEL_NAME]
    /\ init_log.clean \in {"locked", "error"} =>
          /\ init_log.rebuilt /\ init_log.ret /\ system_ready
          /\ IF init_log.vs_ok
             THEN /\ rag_service.vector_db
                  /\ disk.index # <<>> /\ disk.index[Len(disk.index)] = CurrentBatch
             ELSE init_log.soft = "vector" /\ ~rag_service.vector_db

\* Every erasure attempt met a PermissionError and the index was then built.
BoundedErasureRetryWitness ==
    /\ init_log.clean = "locked" /\ init_log.vs_ok /\ rag_service.vector_db
    /\ Len(disk.index) = 2

AllSteps == <<"config", "llm", "docs", "chunks", "embed", "vector">>

Attempted(step) == \E i \in 1..Len(init_log.steps) : init_log.steps[i] = step

\* C22 -- The steps every initialize_system attempted are, in order, a prefix
\* of: configuration, generator, documents, chunks, embedder, index store.  The
\* embedder was attempted only with the generator initialized and at least one
\* chunk; the index store was attempted only with the embedder initialized; and
\* no embedder or index handle is set whose step was not attempted.
InitializationOrder ==
    init_log.steps # <<>> =>
        /\ Len(init_log.steps) <= Len(AllSteps)
        /\ init_log.steps = SubSeq(AllSteps, 1, Len(init_log.steps))
        /\ Attempted("embed") =>
              /\ init_log.llm_ok /\ is_available(rag_service)
              /\ document_service.chunks > 0
        /\ Attempted("vector") =>
              rag_service.embedding_model # 0 /\ document_service.chunks > 0
        /\ rag_service.embedding_model # 0 => Attempted("embed")
        /\ rag_service.vector_db => Attempted("vector")

\* The embedder failed to initialize and the index store was not attempted.
InitializationOrderWitness ==
    /\ init_log.steps = SubSeq(AllSteps, 1, 5) /\ init_log.soft = "embed"
    /\ rag_service.embedding_model = 0 /\ ~rag_service.vector_db
    /\ document_service.chunks > 0

\* C23 -- In every reachable state, for every chunk count, every outcome of
\* loading the persisted collection and either value of the index handle, the
\* staleness check reports stale exactly when the directory is missing, is
\* empty, fails to load or holds a number of entries other than the chunk
\* count; on stale it leaves the service as it was, on fresh it sets the handle
\* (to the loaded collection) and initialize_vector_store succeeds without a
\* rebuild and without touching the collection.  And an initialization that
\* did not rebuild left the handle set on a collection of as many entries as
\* chunks.
StalenessCheckCases ==
    /\ \A n \in 1..(MaxChunks + 1), ok \in BOOLEAN, vdb \in BOOLEAN :
          LET svc    == [RAGService EXCEPT !.llm = TRUE, !.vector_db = vdb,
                                           !.embedding_model = HF_EMBEDDING_MODEL_NAME]
              chunks == [n |-> n, ver |-> "v1"]
              e      == [EnvDefault EXCEPT !.loadOk = ok]
              chk    == _check_vector_store_rebuild(svc, disk, chunks, e)
              vs     == initialize_vector_store(svc, disk, chunks, e)
          IN  /\ chk.needs <=> \/ ~disk.exists
                                \/ disk.index = <<>>
                                \/ ~ok
                                \/ count(disk) # n
              /\ chk.needs => chk.svc = svc
              /\ ~chk.needs =>
                    /\ chk.svc = [svc EXCEPT !.vector_db = TRUE]
                    /\ vs.ok /\ ~vs.rebuilt /\ vs.svc.vector_db
                    /\ vs.disk = disk
    /\ (init_log.vs_ok /\ ~init_log.rebuilt) =>
          /\ rag_service.vector_db /\ disk.index # <<>>
          /\ count(disk) = document_service.chunks

\* An initialization found the persisted collection fresh and reused it.
StalenessCheckCasesWitness ==
    /\ init_log.vs_ok /\ ~init_log.rebuilt /\ init_log.clean = "None"
    /\ rag_service.vector_db /\ count(disk) = document_service.chunks

\* C14 (amended) -- Whenever the index handle is set after an initialization
\* that initialized the index store: if the persisted collection was reused, it
\* holds as many entries as the latest corpus load produced chunks (their
\* content is not compared); if it was rebuilt, its latest build is the current
\* chunks made by the current embedder.
IndexMatchesChunkCount ==
    (rag_service.vector_db /\ init_log.vs_ok) =>
        /\ disk.index # <<>>
        /\ IF init_log.rebuilt
           THEN disk.index[Len(disk.index)] = CurrentBatch
           ELSE count(disk) = document_service.chunks

\* A collection cut from other content, with the same number of entries as the
\* corpus has chunks, was reused.
IndexMatchesChunkCountWitness ==
    /\ rag_service.vector_db /\ init_log.vs_ok /\ ~init_log.rebuilt
    /\ count(disk) = document_service.chunks
    /\ disk.index[1].ver # document_service.ver

\* C24 -- In every reachable state, for every chunk count, every course of the
\* erasure and either value of the index handle, a rebuild whose build fails
\* returns False with the handle unset, and so does an initialize_vector_store
\* that has to rebuild.  And whenever the last initialization ended in a soft
\* failure of the index store, it had attempted the rebuild, returned True
\* with system_ready set, and left the handle unset with the generator ready:
\* the capability mode is LLM_ONLY.
BuildFailureLeavesIndexUnset ==
    /\ \A n \in 1..MaxChunks, k \in {0, MAX_REBUILD_ATTEMPTS}, vdb \in BOOLEAN :
          LET svc    == [RAGService EXCEPT !.llm = TRUE, !.vector_db = vdb,
                                           !.embedding_model = HF_EMBEDDING_MODEL_NAME]
              chunks == [n |-> n, ver |-> "v1"]
              e      == [EnvDefault EXCEPT !.locked = k, !.loadOk = FALSE,
                                           !.buildOk = FALSE]
              rb     == _rebuild_vector_store(svc, disk, chunks, e)
              vs     == initialize_vector_store(svc, disk, chunks, e)
          IN  /\ ~rb.ok /\ ~rb.svc.vector_db
              /\ ~vs.ok /\ vs.err = "rebuild" /\ vs.rebuilt
              /\ ~vs.svc.vector_db /\ ~is_rag_ready(vs.svc)
    /\ init_log.soft = "vector" =>
          /\ init_log.rebuilt /\ ~init_log.vs_ok
          /\ init_log.ret /\ system_ready
          /\ ~rag_service.vector_db
          /\ CapabilityMode(Globals) = "LLM_ONLY"

\* After a rebuild whose build failed a chat request was answered in LLM_ONLY
\* mode.
BuildFailureLeavesIndexUnsetWitness ==
    /\ init_log.soft = "vector" /\ init_log.rebuilt /\ system_ready
    /\ resp.op = "chat" /\ resp.mode = "LLM_ONLY"

\* C25 -- In every reachable state the index handle is set only with the
\* embedder set, and the embedder only with the generator set; so is_rag_ready
\* holds exactly when the index handle is set, and no status reports the
\* pipeline ready without the generator.
ReadinessChain ==
    /\ rag_service.vector_db => rag_service.embedding_model # 0
    /\ rag_service.embedding_model # 0 => rag_service.llm
    /\ is_rag_ready(rag_service) <=> rag_service.vector_db
    /\ resp.op \in {"status", "reinitialize"} =>
          /\ resp.rag_pipeline_ready => resp.llm_ready
          /\ resp.db_ready <=> resp.rag_pipeline_ready

\* A reinitialize ended with the full pipeline ready.
ReadinessChainWitness ==
    /\ resp.op = "reinitialize" /\ resp.rag_pipeline_ready
    /\ rag_service.vector_db /\ rag_service.embedding_model # 0 /\ rag_service.llm

\* C26 -- (the claim as stated) whenever the last call on the service was an
\* initialize_vector_store that returned failure for want of an embedder or of
\* chunks, the index handle is unset and is_rag_ready is false.
VectorStoreRefusalLeavesIndexNotReady ==
    (pc = "initialize_vector_store" /\ frame.err \in {"no_embedder", "no_chunks"}) =>
        ~rag_service.vector_db /\ ~is_rag_ready(rag_service)

\* C27 -- (the claim as stated) a chat response that lists sources reports the
\* mode RAG, and a chat response whose mode is LLM_ONLY or UNAVAILABLE lists no
\* source, a failed generator call after a successful retrieval included.
SourcesOnlyInRagMode ==
    (resp.op = "chat" /\ resp.http = 200) =>
        /\ resp.sources # <<>> => resp.mode = "RAG"
        /\ resp.mode \in {"LLM_ONLY", "UNAVAILABLE"} => resp.sources = <<>>

\* C28 -- (the claim as stated) every call of chunk_text with chunk_size > 0
\* and overlap >= 0 returns, and every chunk it returns has a non-whitespace
\* character.
ChunkTextTerminates ==
    /\ <>(pc = "returned")
    /\ [](pc = "returned" =>
             \A i \in 1..Len(frame.chunks) : stripped(frame.chunks[i]))

====
